---- MODULE Spec2Model ----
(***************************************************************************)
(* Model of the email validator (src/main.py): the /validate coroutine     *)
(* validate_email, the MX lookup get_mx_records / sync_mx_lookup, the SMTP *)
(* probe check_smtp, and the asyncio event loop they are scheduled on.     *)
(*                                                                         *)
(* Strings the code inspects (emails, domains, host names) are sequences   *)
(* of one-character strings, so that split, lower, endswith and rstrip are *)
(* computed.  Python exceptions are class names with their base classes,   *)
(* and an except chain is the first clause whose class is a base of the    *)
(* raised class.                                                           *)
(***************************************************************************)
EXTENDS Integers, Sequences, FiniteSets, TLC

\* ------------------------------------------------------------------ bounds
\* number of request slots of the server
NumRequests == 2
\* longest resolver answer (number of MX records) explored by SpecMx
MaxMx == 3
MaxDomainLen == 5

Requests == 1..NumRequests

\* --------------------------------------------------------------- variables
VARIABLES
  pc,                 \* position of each request's coroutine
  loop,               \* request whose coroutine occupies the event loop, 0 if none
  email,              \* request.email
  smtp_check_enabled, \* query parameter
  result,             \* the result dict of validate_email
  mx_records,         \* local of validate_email: what get_mx_records returned
  conn,               \* state of check_smtp's smtplib.SMTP object
  pending,            \* (status, detail) check_smtp is about to return
  stages,             \* pipeline stages the request has run, in order
  future,             \* what the executor call the coroutine awaits came back with
  dns,                \* what the resolver did for this request
  wire,               \* the SMTP dialogue of the request: commands and what came back
  call                \* a single call of a pure function (SpecMx)

vars == <<pc, loop, email, smtp_check_enabled, result, mx_records, conn,
          pending, stages, future, dns, wire, call>>

\* ------------------------------------------------------------ text helpers
\* str.lower() on the characters the model uses
LowerChar(c) ==
  CASE c = "A" -> "a"
    [] c = "B" -> "b"
    [] c = "X" -> "x"
    [] OTHER -> c

lower(s) == [i \in 1..Len(s) |-> LowerChar(s[i])]

\* str.endswith
endswith(s, suffix) ==
  /\ Len(suffix) <= Len(s)
  /\ SubSeq(s, Len(s) - Len(suffix) + 1, Len(s)) = suffix

\* str.rstrip('.')
RECURSIVE rstrip_dot(_)
rstrip_dot(s) ==
  IF s # <<>> /\ s[Len(s)] = "."
    THEN rstrip_dot(SubSeq(s, 1, Len(s) - 1))
    ELSE s

\* email.split("@")[-1]: what follows the last "@" (the whole string if none)
last_at(s) ==
  IF \E i \in 1..Len(s) : s[i] = "@"
    THEN CHOOSE i \in 1..Len(s) : s[i] = "@" /\ \A j \in (i+1)..Len(s) : s[j] # "@"
    ELSE 0

domain_of(e) == lower(SubSeq(e, last_at(e) + 1, Len(e)))

\* str.encode('ascii') succeeds; "U+00F1" stands for the one non-ASCII character
is_ascii(s) == \A i \in 1..Len(s) : s[i] # "U+00F1"

\* ----------------------------------------------------------- policy sets
\* the set load_blacklist produced at start-up: stripped, lower-cased lines
BLACKLISTED_DOMAINS == { <<"b", ".", "c", "o">> }

VALID_TLDS ==
  { <<".", "c", "o", "m">>, <<".", "n", "e", "t">>, <<".", "o", "r", "g">>,
    <<".", "e", "d", "u">>, <<".", "g", "o", "v">>, <<".", "c", "o">>,
    <<".", "i", "o">>, <<".", "d", "e", "v">>, <<".", "i", "n", "f", "o">>,
    <<".", "b", "i", "z">>, <<".", "m", "x">>, <<".", "e", "s">>,
    <<".", "a", "p", "p">>, <<".", "x", "y", "z">> }

\* sorted(list(S), key=len, reverse=True)
RECURSIVE sorted_by_len_desc(_)
sorted_by_len_desc(S) ==
  IF S = {} THEN <<>>
  ELSE LET t == CHOOSE x \in S : \A y \in S : Len(y) <= Len(x)
       IN  <<t>> \o sorted_by_len_desc(S \ {t})

\* the for loop of is_valid_tld over sorted_tlds, from index i
RECURSIVE tld_loop(_, _, _)
tld_loop(domain, sorted_tlds, i) ==
  IF i > Len(sorted_tlds) THEN FALSE
  ELSE LET tld == sorted_tlds[i]
           tld_start_index == Len(domain) - Len(tld)
       IN  IF endswith(domain, tld) /\ tld_start_index > 0
             THEN TRUE
             ELSE tld_loop(domain, sorted_tlds, i + 1)

\* is_valid_tld without the test that something precedes the suffix
is_valid_tld_BareSuffix(domain) == \E tld \in VALID_TLDS : endswith(domain, tld)

is_valid_tld(domain) == tld_loop(domain, sorted_by_len_desc(VALID_TLDS), 1)

ROLE_BASED_USERS ==
  { <<"a", "d", "m", "i", "n">>, <<"i", "n", "f", "o">>,
    <<"s", "u", "p", "p", "o", "r", "t">>, <<"s", "a", "l", "e", "s">>,
    <<"c", "o", "n", "t", "a", "c", "t">>,
    <<"w", "e", "b", "m", "a", "s", "t", "e", "r">>,
    <<"p", "o", "s", "t", "m", "a", "s", "t", "e", "r">>,
    <<"a", "b", "u", "s", "e">>,
    <<"h", "o", "s", "t", "m", "a", "s", "t", "e", "r">> }

\* s.split(c)[0]: what precedes the first c (the whole string if none)
split_first(s, c) ==
  IF \E i \in 1..Len(s) : s[i] = c
    THEN SubSeq(s, 1, (CHOOSE i \in 1..Len(s) :
                         s[i] = c /\ \A j \in 1..(i - 1) : s[j] # c) - 1)
    ELSE s

not_dot(c) == c # "."

is_role_based(e) ==
  LET local_part == SelectSeq(split_first(lower(split_first(e, "@")), "+"), not_dot)
  IN  local_part \in ROLE_BASED_USERS

\* ------------------------------------------------------------------ inputs
\* a@x.co, info@B.co (blacklisted once lower-cased), a@x.zz (unknown suffix),
\* and an address of another domain, y.io, with a non-ASCII local part
Emails ==
  { <<"a", "@", "x", ".", "c", "o">>,
    <<"i", "n", "f", "o", "@", "B", ".", "c", "o">>,
    <<"a", "@", "x", ".", "z", "z">>,
    <<"U+00F1", "@", "y", ".", "i", "o">> }

NoEmail == <<>>

\* ------------------------------------------------------------ Python values
\* Optional[List[str]]: None, or a list
None == [isNone |-> TRUE, items |-> <<>>]
List(l) == [isNone |-> FALSE, items |-> l]

\* what a call gives back: a value, or a raised exception class (exc # "")
Returned(v) == [exc |-> "", val |-> v]
Raised(c) == [exc |-> c, val |-> None]

\* an f-string: its fixed text and the values interpolated into it
Text(t, name, code) == [text |-> t, name |-> name, code |-> code]
Empty == Text("", <<>>, 0)

\* ------------------------------------------------------- exception classes
\* socket.error is OSError and socket.timeout is TimeoutError (aliases)
Base(c) ==
  CASE c = "TimeoutError" -> "OSError"
    [] c = "ConnectionRefusedError" -> "ConnectionError"
    [] c = "ConnectionResetError" -> "ConnectionError"
    [] c = "ConnectionError" -> "OSError"
    [] c = "gaierror" -> "OSError"
    [] c = "SMTPServerDisconnected" -> "SMTPException"
    [] c = "SMTPConnectError" -> "SMTPResponseException"
    [] c = "SMTPResponseException" -> "SMTPException"
    [] c = "SMTPException" -> "OSError"
    [] c = "OSError" -> "Exception"
    [] c = "UnicodeEncodeError" -> "ValueError"
    [] c = "ValueError" -> "Exception"
    [] c = "NXDOMAIN" -> "DNSException"
    [] c = "NoAnswer" -> "DNSException"
    [] c = "LifetimeTimeout" -> "DNSException"
    [] c = "NoNameservers" -> "DNSException"
    [] c = "DNSException" -> "Exception"
    [] OTHER -> "BaseException"

\* an except clause for class k catches a raised class c
RECURSIVE issubclass(_, _)
issubclass(c, k) ==
  \/ c = k
  \/ c # "BaseException" /\ issubclass(Base(c), k)

\* ------------------------------------------------------------ MX resolution
\* what resolver.resolve(domain, 'MX') does: an answer of one or more MX
\* records (exchange is an absolute name, with its final dot), or a raise
MxRecord(exchange, preference) == [exchange |-> exchange, preference |-> preference]
Answer(rrset) == [kind |-> "Answer", rrset |-> rrset]
DnsError(c) == [kind |-> c, rrset |-> <<>>]
NoDns == [kind |-> "", rrset |-> <<>>]

DnsErrors == {"NXDOMAIN", "NoAnswer", "LifetimeTimeout", "NoNameservers"}

mx1 == <<"m", "1", ".">>
mx2 == <<"m", "2", ".">>

\* the answers the resolver may give in Spec
MxAnswers ==
  { <<MxRecord(mx2, 20), MxRecord(mx1, 10)>>,
    <<MxRecord(mx1, 10)>> }

ResolverOutcomes ==
  {Answer(a) : a \in MxAnswers} \cup {DnsError(c) : c \in DnsErrors}

\* str(answer.exchange).rstrip('.')
exchange_str(answer) == rstrip_dot(answer.exchange)

\* the sort key of host name x: the preference of the first answer named x
sort_key(x, mx_answers) ==
  LET i == CHOOSE i \in 1..Len(mx_answers) :
             /\ exchange_str(mx_answers[i]) = x
             /\ \A j \in 1..(i - 1) : exchange_str(mx_answers[j]) # x
  IN  mx_answers[i].preference

\* list.sort(key=...) is stable: x goes after every element whose key is <= its own
RECURSIVE insert_sorted(_, _, _)
insert_sorted(sorted, x, mx_answers) ==
  IF sorted = <<>> THEN <<x>>
  ELSE IF sort_key(Head(sorted), mx_answers) <= sort_key(x, mx_answers)
    THEN <<Head(sorted)>> \o insert_sorted(Tail(sorted), x, mx_answers)
    ELSE <<x>> \o sorted

\* the first n elements of l, sorted
RECURSIVE list_sort(_, _, _)
list_sort(l, n, mx_answers) ==
  IF n = 0 THEN <<>>
  ELSE insert_sorted(list_sort(l, n - 1, mx_answers), l[n], mx_answers)

\* the try body of sync_mx_lookup for an answer
sorted_mx_records(mx_answers) ==
  LET mx_records_0 == [i \in 1..Len(mx_answers) |-> exchange_str(mx_answers[i])]
  IN  list_sort(mx_records_0, Len(mx_records_0), mx_answers)

\* sync_mx_lookup whose last except clause returns [] instead of None
sync_mx_lookup_OtherEmpty(outcome) ==
  IF outcome.kind = "Answer" THEN Returned(List(sorted_mx_records(outcome.rrset)))
  ELSE IF issubclass(outcome.kind, "NXDOMAIN") THEN Returned(None)
  ELSE IF issubclass(outcome.kind, "NoAnswer") THEN Returned(List(<<>>))
  ELSE IF issubclass(outcome.kind, "Exception") THEN Returned(List(<<>>))
  ELSE Raised(outcome.kind)

\* sync_mx_lookup, and so get_mx_records, which awaits just that
sync_mx_lookup(outcome) ==
  IF outcome.kind = "Answer" THEN Returned(List(sorted_mx_records(outcome.rrset)))
  ELSE IF issubclass(outcome.kind, "NXDOMAIN") THEN Returned(None)
  ELSE IF issubclass(outcome.kind, "NoAnswer") THEN Returned(List(<<>>))
  ELSE IF issubclass(outcome.kind, "Exception") THEN Returned(None)
  ELSE Raised(outcome.kind)

\* --------------------------------------------------------------- SMTP probe
\* what the network does to one step of the dialogue: a reply line with a
\* code, or a transport event
Reply(code) == [ev |-> "reply", code |-> code]
Event(e) == [ev |-> e, code |-> 0]

\* reply codes the server may give to MAIL FROM and to RCPT TO
MailCodes == {250, 251, 550}
RcptCodes == {250, 251, 450, 550, 553}

\* while the TCP connection is being opened (socket.create_connection)
TcpFaults == {"tcp_timeout", "tcp_refused", "host_unresolved", "net_unreachable"}
\* while a command is written or its reply read
IoFaults == {"io_timeout", "peer_reset", "eof", "line_too_long"}

\* connect() opens the connection and reads the greeting, whose code it
\* returns and check_smtp discards
ConnectEvents == {Event("greeting")} \cup {Event(e) : e \in TcpFaults \cup IoFaults}
\* the codes of the replies to HELO and QUIT are not read
HeloEvents == {Reply(250)} \cup {Event(e) : e \in IoFaults}
MailEvents == {Reply(c) : c \in MailCodes} \cup {Event(e) : e \in IoFaults}
RcptEvents == {Reply(c) : c \in RcptCodes} \cup {Event(e) : e \in IoFaults}
QuitEvents == {Reply(221)} \cup {Event(e) : e \in IoFaults}

\* smtplib.SMTP.connect: the class it raises, "" if it returns.  Faults of
\* create_connection come up as they are; getreply turns every OSError and
\* end of file into SMTPServerDisconnected
smtplib_connect(event) ==
  CASE event.ev = "tcp_timeout" -> "TimeoutError"
    [] event.ev = "tcp_refused" -> "ConnectionRefusedError"
    [] event.ev = "host_unresolved" -> "gaierror"
    [] event.ev = "net_unreachable" -> "OSError"
    [] event.ev \in {"io_timeout", "peer_reset", "eof"} -> "SMTPServerDisconnected"
    [] event.ev = "line_too_long" -> "SMTPResponseException"
    [] OTHER -> ""

\* smtplib.SMTP.helo / mail / rcpt / quit on an open connection: putcmd, then
\* getreply; the reply code is returned, never raised
smtplib_command(event) ==
  CASE event.ev \in {"io_timeout", "peer_reset", "eof"} -> "SMTPServerDisconnected"
    [] event.ev = "line_too_long" -> "SMTPResponseException"
    [] OTHER -> ""

\* the (status, detail) tuple of check_smtp
StatusDetail(status, detail) == [exc |-> "", status |-> status, detail |-> detail]
Propagate(c) == [exc |-> c, status |-> "", detail |-> Empty]
NoPending == StatusDetail("", Empty)

\* check_smtp without its last clause, except Exception
check_smtp_except_NoCatchAll(exc, mx_server) ==
  IF issubclass(exc, "TimeoutError")
    THEN StatusDetail("timeout", Text("Connection to the mail server timed out.", mx_server, 0))
  ELSE IF issubclass(exc, "SMTPConnectError")
    THEN StatusDetail("refused", Text("Could not connect to the mail server on port 25.", mx_server, 0))
  ELSE IF \/ issubclass(exc, "SMTPServerDisconnected")
          \/ issubclass(exc, "ConnectionResetError")
          \/ issubclass(exc, "OSError")
    THEN StatusDetail("timeout", Text("The mail server or network unexpectedly disconnected during validation. Status is uncertain.", <<>>, 0))
  ELSE Propagate(exc)

\* check_smtp whose disconnect clause reports 'refused'
check_smtp_except_DisconnectRefused(exc, mx_server) ==
  IF issubclass(exc, "TimeoutError")
    THEN StatusDetail("timeout", Text("Connection to the mail server timed out.", mx_server, 0))
  ELSE IF issubclass(exc, "SMTPConnectError")
    THEN StatusDetail("refused", Text("Could not connect to the mail server on port 25.", mx_server, 0))
  ELSE IF \/ issubclass(exc, "SMTPServerDisconnected")
          \/ issubclass(exc, "ConnectionResetError")
          \/ issubclass(exc, "OSError")
    THEN StatusDetail("refused", Text("The mail server or network unexpectedly disconnected during validation. Status is uncertain.", <<>>, 0))
  ELSE IF issubclass(exc, "Exception")
    THEN StatusDetail("unknown", Text("An unexpected critical error occurred.", <<>>, 0))
  ELSE Propagate(exc)

\* the except clauses of check_smtp, in their order
check_smtp_except(exc, mx_server) ==
  IF issubclass(exc, "TimeoutError")
    THEN StatusDetail("timeout", Text("Connection to the mail server timed out.", mx_server, 0))
  ELSE IF issubclass(exc, "SMTPConnectError")
    THEN StatusDetail("refused", Text("Could not connect to the mail server on port 25.", mx_server, 0))
  ELSE IF \/ issubclass(exc, "SMTPServerDisconnected")
          \/ issubclass(exc, "ConnectionResetError")
          \/ issubclass(exc, "OSError")
    THEN StatusDetail("timeout", Text("The mail server or network unexpectedly disconnected during validation. Status is uncertain.", <<>>, 0))
  ELSE IF issubclass(exc, "Exception")
    THEN StatusDetail("unknown", Text("An unexpected critical error occurred.", <<>>, 0))
  ELSE Propagate(exc)

\* check_smtp going on to RCPT TO whatever the reply to MAIL FROM
mail_from_check_NeverRefused(code) == NoPending

\* the reply code of MAIL FROM: the early return, or NoPending to go on
mail_from_check(code) ==
  IF code # 250
    THEN StatusDetail("refused", Text("Server refused MAIL FROM command.", <<>>, 0))
    ELSE NoPending

\* check_smtp taking every reply to RCPT TO but 550 and 553 as a confirmation
rcpt_to_check_LenientSuccess(code) ==
  IF code \notin {550, 553}
    THEN StatusDetail("success", Text("The mail server confirmed the email address exists (Code 250).", <<>>, 0))
  ELSE StatusDetail("refused", Text("Mailbox does not exist (550/553) or server explicitly rejected the address.", <<>>, 0))

\* the reply code of RCPT TO
rcpt_to_check(code) ==
  IF code = 250
    THEN StatusDetail("success", Text("The mail server confirmed the email address exists (Code 250).", <<>>, 0))
  ELSE IF code \in {550, 553}
    THEN StatusDetail("refused", Text("Mailbox does not exist (550/553) or server explicitly rejected the address.", <<>>, 0))
  ELSE StatusDetail("refused", Text("Server rejected the recipient with code.", <<>>, code))

\* a finally clause that calls conn.quit() outside any try
quit_except_NoTry(exc) == exc

\* the inner try of the finally clause: conn.quit() raised class exc
quit_except(exc) ==
  IF exc = "" \/ issubclass(exc, "Exception") THEN "" ELSE exc

\* ------------------------------------------------------------ orchestrator
Message(t, name, detail) == [text |-> t, name |-> name, detail |-> detail]
NoMessage == Message("", <<>>, Empty)

\* validate_email whose blacklist branch does not return
policy_check_NoBlacklistReturn(domain) ==
  IF ~is_valid_tld(domain) THEN "invalid_tld"
  ELSE "pass"

\* steps 2 and 3 of validate_email: which early return is taken, if any
policy_check(domain) ==
  IF domain \in BLACKLISTED_DOMAINS THEN "blacklisted"
  ELSE IF ~is_valid_tld(domain) THEN "invalid_tld"
  ELSE "pass"

\* validate_email that starts from 'unknown' whatever smtp_check_enabled is
initial_result_AlwaysUnknown(e, enabled) ==
  [ is_valid_format |-> TRUE,
    domain_exists |-> FALSE,
    is_blacklisted |-> FALSE,
    smtp_check_status |-> "unknown",
    is_role_based |-> is_role_based(e),
    message |-> NoMessage,
    mx_records |-> None ]

\* step 1 of validate_email: the initial result dict
initial_result(e, enabled) ==
  [ is_valid_format |-> TRUE,
    domain_exists |-> FALSE,
    is_blacklisted |-> FALSE,
    smtp_check_status |-> IF ~enabled THEN "skipped" ELSE "unknown",
    is_role_based |-> is_role_based(e),
    message |-> NoMessage,
    mx_records |-> None ]

\* validate_email without its last if: no default message
default_message_Never(res) == res

\* the Routed branch of step 4 that does not attach the list
routed_result_NoList(res, mx) == [res EXCEPT !.domain_exists = TRUE]

\* the Routed branch of step 4 that appends to a list kept between calls
routed_result_SharedList(res, mx) ==
  LET kept == IF \E q \in Requests : ~result[q].mx_records.isNone
                THEN result[CHOOSE q \in Requests : ~result[q].mx_records.isNone].mx_records.items
                ELSE <<>>
  IN  [res EXCEPT !.domain_exists = TRUE,
                  !.mx_records = List(kept \o mx.items)]

\* the Routed branch of step 4 of validate_email
routed_result(res, mx) ==
  [res EXCEPT !.domain_exists = TRUE, !.mx_records = mx]

\* the default message when none was set
default_message(res) ==
  IF res.message.text = ""
    THEN [res EXCEPT !.message = Message("Basic validation successful. Domain is valid, but mailbox existence was not verified (SMTP check skipped).", <<>>, Empty)]
    ELSE res

\* step 5 of validate_email once check_smtp has returned
smtp_result(res, e, smtp_status, smtp_message) ==
  default_message(
    [res EXCEPT
       !.smtp_check_status = smtp_status,
       !.message =
         IF smtp_status = "success"
           THEN Message("Email is valid and the mailbox exists.", e, Empty)
         ELSE IF smtp_status = "refused"
           THEN Message("Domain exists, but the mail server explicitly rejected the address. It is likely invalid.", <<>>, smtp_message)
         ELSE IF smtp_status = "timeout"
           THEN Message("Domain exists, but the mail server timed out. Mailbox existence is uncertain.", <<>>, Empty)
         ELSE Message("Validation failed due to an unexpected server error.", <<>>, smtp_message)])

\* ---------------------------------------------------------------- actions
WireEntry(cmd, host, event) ==
  [cmd |-> cmd, host |-> host, ev |-> event.ev, code |-> event.code]

\* check_smtp connecting to the least preferred host
mx_server_Last(r) == mx_records[r].items[Len(mx_records[r].items)]

mx_server(r) == mx_records[r].items[1]

\* validate_email keeping its result in one module-level object that every
\* invocation writes
Return_SharedResult(r, ret) ==
  /\ pending' = [pending EXCEPT ![r] = ret]
  /\ IF ret.exc # ""
       THEN /\ pc' = [pc EXCEPT ![r] = "raised"]
            /\ UNCHANGED result
       ELSE /\ pc' = [pc EXCEPT ![r] = "done"]
            /\ result' = [q \in Requests |->
                            smtp_result(result[r], email[r], ret.status, ret.detail)]
  /\ loop' = 0

\* validate_email gets (status, detail) back from check_smtp (or its
\* exception) and runs to its return
Return(r, ret) ==
  /\ pending' = [pending EXCEPT ![r] = ret]
  /\ IF ret.exc # ""
       THEN /\ pc' = [pc EXCEPT ![r] = "raised"]
            /\ UNCHANGED result
       ELSE /\ pc' = [pc EXCEPT ![r] = "done"]
            /\ result' = [result EXCEPT ![r] =
                            smtp_result(result[r], email[r], ret.status, ret.detail)]
  /\ loop' = 0

\* the finally clause of check_smtp when the socket is not open (never
\* opened, or closed by smtplib when it raised): conn.quit() raises
\* SMTPServerDisconnected before any I/O
LeaveUnconnected(r, ret, w) ==
  /\ wire' = [wire EXCEPT ![r] = Append(w, WireEntry("quit", <<>>, Event("not_connected")))]
  /\ conn' = [conn EXCEPT ![r] = "closed"]
  /\ IF quit_except("SMTPServerDisconnected") # ""
       THEN Return(r, Propagate(quit_except("SMTPServerDisconnected")))
       ELSE Return(r, ret)

\* the finally clause of check_smtp when the socket is open: conn.quit()
\* writes QUIT and waits for the reply, in the coroutine
LeaveConnected(r, ret, w) ==
  /\ wire' = [wire EXCEPT ![r] = w]
  /\ pending' = [pending EXCEPT ![r] = ret]
  /\ pc' = [pc EXCEPT ![r] = "quit_blk"]
  /\ loop' = r
  /\ UNCHANGED <<result, conn>>

\* the endpoint is called: a task for validate_email(request, smtp_check_enabled)
Arrive(r) ==
  /\ pc[r] = "idle"
  /\ \E e \in Emails, enabled \in BOOLEAN :
       /\ email' = [email EXCEPT ![r] = e]
       /\ smtp_check_enabled' = [smtp_check_enabled EXCEPT ![r] = enabled]
  /\ pc' = [pc EXCEPT ![r] = "ready"]
  /\ UNCHANGED <<loop, result, mx_records, conn, pending, stages, future, dns, wire, call>>

\* validate_email from its first line to the await of get_mx_records
Begin(r) ==
  /\ pc[r] = "ready"
  /\ loop = 0
  /\ LET domain == domain_of(email[r])
         res == initial_result(email[r], smtp_check_enabled[r])
     IN  IF policy_check(domain) = "blacklisted"
           THEN /\ result' = [result EXCEPT ![r] =
                     [res EXCEPT !.is_blacklisted = TRUE,
                                 !.message = Message("The domain is blacklisted and should not be used.", domain, Empty)]]
                /\ stages' = [stages EXCEPT ![r] = <<"Blacklist">>]
                /\ pc' = [pc EXCEPT ![r] = "done"]
         ELSE IF policy_check(domain) = "invalid_tld"
           THEN /\ result' = [result EXCEPT ![r] =
                     [res EXCEPT !.message = Message("The domain does not appear to have a valid Top-Level Domain.", domain, Empty)]]
                /\ stages' = [stages EXCEPT ![r] = <<"Blacklist", "TldShape">>]
                /\ pc' = [pc EXCEPT ![r] = "done"]
         ELSE   /\ result' = [result EXCEPT ![r] = res]
                /\ stages' = [stages EXCEPT ![r] = <<"Blacklist", "TldShape">>]
                /\ pc' = [pc EXCEPT ![r] = "dns_wait"]
  /\ UNCHANGED <<loop, email, smtp_check_enabled, mx_records, conn, pending, future, dns, wire, call>>

\* sync_mx_lookup in an executor thread
DnsLookup(r) ==
  /\ pc[r] = "dns_wait"
  /\ \E outcome \in ResolverOutcomes :
       /\ dns' = [dns EXCEPT ![r] = outcome]
       /\ future' = [future EXCEPT ![r] = sync_mx_lookup(outcome)]
  /\ stages' = [stages EXCEPT ![r] = Append(@, "MxResolution")]
  /\ pc' = [pc EXCEPT ![r] = "dns_ret"]
  /\ UNCHANGED <<loop, email, smtp_check_enabled, result, mx_records, conn, pending, wire, call>>

\* validate_email from the return of get_mx_records to its return, or to the
\* await of conn.connect in check_smtp
AfterDns(r) ==
  /\ pc[r] = "dns_ret"
  /\ loop = 0
  /\ IF future[r].exc # ""
       THEN /\ pc' = [pc EXCEPT ![r] = "raised"]
            /\ UNCHANGED <<result, mx_records, conn, stages>>
       ELSE LET mx == future[r].val
                domain == domain_of(email[r])
            IN  /\ mx_records' = [mx_records EXCEPT ![r] = mx]
                /\ IF mx.isNone
                     THEN /\ result' = [result EXCEPT ![r].message =
                               Message("The domain does not exist (NXDOMAIN).", domain, Empty)]
                          /\ pc' = [pc EXCEPT ![r] = "done"]
                          /\ UNCHANGED <<conn, stages>>
                   ELSE IF mx.items = <<>>
                     THEN /\ result' = [result EXCEPT ![r].message =
                               Message("The domain exists, but no Mail Exchange (MX) records were found.", domain, Empty)]
                          /\ pc' = [pc EXCEPT ![r] = "done"]
                          /\ UNCHANGED <<conn, stages>>
                   ELSE LET res == routed_result(result[r], mx)
                        IN  IF smtp_check_enabled[r]
                              THEN /\ result' = [result EXCEPT ![r] = res]
                                   /\ conn' = [conn EXCEPT ![r] = "created"]
                                   /\ stages' = [stages EXCEPT ![r] = Append(@, "SmtpProbe")]
                                   /\ pc' = [pc EXCEPT ![r] = "connect_wait"]
                              ELSE /\ result' = [result EXCEPT ![r] = default_message(res)]
                                   /\ pc' = [pc EXCEPT ![r] = "done"]
                                   /\ UNCHANGED <<conn, stages>>
  /\ UNCHANGED <<loop, email, smtp_check_enabled, pending, future, dns, wire, call>>

\* conn.connect(mx_server, 25) in an executor thread
Connect(r) ==
  /\ pc[r] = "connect_wait"
  /\ \E event \in ConnectEvents :
       /\ wire' = [wire EXCEPT ![r] = Append(@, WireEntry("connect", mx_server(r), event))]
       /\ future' = [future EXCEPT ![r] =
                       IF smtplib_connect(event) # ""
                         THEN Raised(smtplib_connect(event))
                         ELSE Returned(None)]
       /\ conn' = [conn EXCEPT ![r] = IF smtplib_connect(event) # "" THEN "closed" ELSE "open"]
  /\ pc' = [pc EXCEPT ![r] = "connect_ret"]
  /\ UNCHANGED <<loop, email, smtp_check_enabled, result, mx_records, pending, stages, dns, call>>

\* check_smtp from the return of the connect await: an except clause and the
\* finally clause, or conn.helo(), which writes HELO and blocks for the reply
AfterConnect(r) ==
  /\ pc[r] = "connect_ret"
  /\ loop = 0
  /\ IF future[r].exc # ""
       THEN LeaveUnconnected(r, check_smtp_except(future[r].exc, mx_server(r)), wire[r])
       ELSE /\ pc' = [pc EXCEPT ![r] = "helo_blk"]
            /\ loop' = r
            /\ UNCHANGED <<result, conn, pending, wire>>
  /\ UNCHANGED <<email, smtp_check_enabled, mx_records, stages, future, dns, call>>

\* the reply to HELO arrives (or the transport fails): conn.helo() returns and
\* conn.mail('test@example.com') writes MAIL FROM and blocks for the reply
HeloReply(r) ==
  /\ pc[r] = "helo_blk"
  /\ \E event \in HeloEvents :
       LET w == Append(wire[r], WireEntry("helo", <<>>, event))
       IN  IF smtplib_command(event) # ""
             THEN LeaveUnconnected(r, check_smtp_except(smtplib_command(event), mx_server(r)), w)
             ELSE /\ wire' = [wire EXCEPT ![r] = w]
                  /\ pc' = [pc EXCEPT ![r] = "mail_blk"]
                  /\ UNCHANGED <<loop, result, conn, pending>>
  /\ UNCHANGED <<email, smtp_check_enabled, mx_records, stages, future, dns, call>>

\* the reply to MAIL FROM arrives: the code check, then conn.rcpt(email),
\* which raises UnicodeEncodeError before writing if email is not ASCII
MailReply(r) ==
  /\ pc[r] = "mail_blk"
  /\ \E event \in MailEvents :
       LET w == Append(wire[r], WireEntry("mail", <<>>, event))
       IN  IF smtplib_command(event) # ""
             THEN LeaveUnconnected(r, check_smtp_except(smtplib_command(event), mx_server(r)), w)
           ELSE IF mail_from_check(event.code) # NoPending
             THEN LeaveConnected(r, mail_from_check(event.code), w)
           ELSE IF ~is_ascii(email[r])
             THEN LeaveConnected(r, check_smtp_except("UnicodeEncodeError", mx_server(r)),
                                 Append(w, WireEntry("rcpt", <<>>, Event("encode_error"))))
           ELSE /\ wire' = [wire EXCEPT ![r] = w]
                /\ pc' = [pc EXCEPT ![r] = "rcpt_blk"]
                /\ UNCHANGED <<loop, result, conn, pending>>
  /\ UNCHANGED <<email, smtp_check_enabled, mx_records, stages, future, dns, call>>

\* the reply to RCPT TO arrives: the status it decides, then the finally clause
RcptReply(r) ==
  /\ pc[r] = "rcpt_blk"
  /\ \E event \in RcptEvents :
       LET w == Append(wire[r], WireEntry("rcpt", <<>>, event))
       IN  IF smtplib_command(event) # ""
             THEN LeaveUnconnected(r, check_smtp_except(smtplib_command(event), mx_server(r)), w)
             ELSE LeaveConnected(r, rcpt_to_check(event.code), w)
  /\ UNCHANGED <<email, smtp_check_enabled, mx_records, stages, future, dns, call>>

\* the reply to QUIT arrives (or the transport fails): the inner try of the
\* finally clause, then check_smtp returns what it had decided
QuitReply(r) ==
  /\ pc[r] = "quit_blk"
  /\ \E event \in QuitEvents :
       /\ wire' = [wire EXCEPT ![r] = Append(@, WireEntry("quit", <<>>, event))]
       /\ IF quit_except(smtplib_command(event)) # ""
            THEN Return(r, Propagate(quit_except(smtplib_command(event))))
            ELSE Return(r, pending[r])
  /\ conn' = [conn EXCEPT ![r] = "closed"]
  /\ UNCHANGED <<email, smtp_check_enabled, mx_records, stages, future, dns, call>>

\* ----------------------------------------------------------- specifications
NoCall == [arg |-> NoDns, ret |-> Returned(None), done |-> FALSE]

InitRequest ==
  /\ loop = 0
  /\ email = [r \in Requests |-> NoEmail]
  /\ smtp_check_enabled = [r \in Requests |-> FALSE]
  /\ result = [r \in Requests |-> initial_result(NoEmail, FALSE)]
  /\ mx_records = [r \in Requests |-> None]
  /\ conn = [r \in Requests |-> "none"]
  /\ pending = [r \in Requests |-> NoPending]
  /\ stages = [r \in Requests |-> <<>>]
  /\ future = [r \in Requests |-> Returned(None)]
  /\ dns = [r \in Requests |-> NoDns]
  /\ wire = [r \in Requests |-> <<>>]

\* one request, served alone
Init ==
  /\ pc = [r \in Requests |-> IF r = 1 THEN "idle" ELSE "off"]
  /\ InitRequest
  /\ call = NoCall

Next ==
  \E r \in Requests :
    \/ Arrive(r)
    \/ Begin(r)
    \/ DnsLookup(r)
    \/ AfterDns(r)
    \/ Connect(r)
    \/ AfterConnect(r)
    \/ HeloReply(r)
    \/ MailReply(r)
    \/ RcptReply(r)
    \/ QuitReply(r)

Spec == Init /\ [][Next]_vars

\* two invocations on the one event loop, in any interleaving; the second
\* may also start after the first has returned
Invocations == {1, 2}

InitConc ==
  /\ pc = [r \in Requests |-> IF r \in Invocations THEN "idle" ELSE "off"]
  /\ InitRequest
  /\ call = NoCall

SpecConc == InitConc /\ [][Next]_vars

\* sync_mx_lookup alone, on every resolver outcome with up to MaxMx records
MxExchanges == {mx1, mx2}
MxPreferences == {10, 20, 30}
MxRecordSpace == {MxRecord(x, p) : x \in MxExchanges, p \in MxPreferences}

\* the records of an RRset differ from one another
RRsets(n) ==
  {a \in [1..n -> MxRecordSpace] : \A i, j \in 1..n : i # j => a[i] # a[j]}

MxOutcomeSpace ==
  {Answer(a) : a \in UNION {RRsets(n) : n \in 1..MaxMx}}
    \cup {DnsError(c) : c \in DnsErrors}

InitMx ==
  /\ pc = [r \in Requests |-> "off"]
  /\ InitRequest
  /\ call \in {[arg |-> o, ret |-> Returned(None), done |-> FALSE] : o \in MxOutcomeSpace}

CallSyncMxLookup ==
  /\ ~call.done
  /\ call' = [call EXCEPT !.ret = sync_mx_lookup(call.arg), !.done = TRUE]
  /\ UNCHANGED <<pc, loop, email, smtp_check_enabled, result, mx_records, conn,
                 pending, stages, future, dns, wire>>

NextMx == CallSyncMxLookup

SpecMx == InitMx /\ [][NextMx]_vars

\* is_valid_tld alone, on every domain of up to MaxDomainLen characters
DomainChars == {"e", ".", "c", "o", "m", "z"}
DomainSpace == UNION {[1..n -> DomainChars] : n \in 0..MaxDomainLen}

InitTld ==
  /\ pc = [r \in Requests |-> "off"]
  /\ InitRequest
  /\ call \in {[arg |-> d, ret |-> Returned(FALSE), done |-> FALSE] : d \in DomainSpace}

CallIsValidTld ==
  /\ ~call.done
  /\ call' = [call EXCEPT !.ret = Returned(is_valid_tld(call.arg)), !.done = TRUE]
  /\ UNCHANGED <<pc, loop, email, smtp_check_enabled, result, mx_records, conn,
                 pending, stages, future, dns, wire>>

NextTld == CallIsValidTld

SpecTld == InitTld /\ [][NextTld]_vars

\* ------------------------------------------------------------------ claims
Statuses == {"success", "refused", "timeout", "skipped", "unknown"}
StageOrder == <<"Blacklist", "TldShape", "MxResolution", "SmtpProbe">>

Started(r) == pc[r] \notin {"off", "idle", "ready"}
Domain(r) == domain_of(email[r])

\* get_mx_records has returned to validate_email
Resolved(r) ==
  /\ pc[r] \notin {"off", "idle", "ready", "dns_wait", "dns_ret"}
  /\ Len(stages[r]) >= 3

\* the ResolutionOutcome that the value returned by get_mx_records stands for
Resolution(r) ==
  IF mx_records[r].isNone THEN "Absent"
  ELSE IF mx_records[r].items = <<>> THEN "NoRoute"
  ELSE "Routed"

\* the step of the dialogue that decided what check_smtp returns: the last
\* one before the session close
Deciding(r) == wire[r][Len(wire[r]) - 1]

Probed(r) == pc[r] = "done" /\ wire[r] # <<>>

\* C1: in every result validate_email returns, smtp_check_status is not
\* 'unknown'.
C1_StatusNeverUnknown ==
  \A r \in Requests :
    pc[r] = "done" => result[r].smtp_check_status # "unknown"

\* C2: in the returned result domain_exists is true when MX resolution gave
\* NoRoute or Routed, and false when it gave Absent.
C2_DomainExistsIffResolved ==
  \A r \in Requests :
    pc[r] = "done" /\ Resolved(r) =>
      (result[r].domain_exists <=> Resolution(r) \in {"NoRoute", "Routed"})

\* C3: no fault of the resolver or of the SMTP dialogue, the session close
\* included, leaves validate_email as an exception, and what validate_email
\* returns is a result dict with one of the five statuses.
C3_AlwaysStructuredResult ==
  \A r \in Requests :
    /\ pc[r] # "raised"
    /\ pc[r] = "done" =>
         /\ result[r].smtp_check_status \in Statuses
         /\ result[r].is_valid_format
         /\ result[r].domain_exists \in BOOLEAN
         /\ result[r].is_blacklisted \in BOOLEAN
         /\ result[r].is_role_based \in BOOLEAN

\* a request returned although RCPT TO raised a non-OSError in the client and
\* the session close then failed too
C3_Witness ==
  \E r \in Requests :
    /\ Probed(r)
    /\ Deciding(r).ev = "encode_error"
    /\ wire[r][Len(wire[r])].cmd = "quit"
    /\ wire[r][Len(wire[r])].ev \in IoFaults
    /\ result[r].smtp_check_status = "unknown"

\* C4: the stages run in the order Blacklist, TldShape, MxResolution,
\* SmtpProbe and none runs after a terminal one: a blacklisted domain returns
\* is_blacklisted with neither resolver nor probe invoked, an invalid TLD
\* returns with neither invoked, and Absent or NoRoute returns with no probe.
C4_NoStageAfterTerminal ==
  \A r \in Requests :
    Started(r) =>
      /\ Len(stages[r]) <= Len(StageOrder)
      /\ stages[r] = SubSeq(StageOrder, 1, Len(stages[r]))
      /\ Domain(r) \in BLACKLISTED_DOMAINS =>
           /\ pc[r] = "done"
           /\ result[r].is_blacklisted
           /\ stages[r] = <<"Blacklist">>
           /\ dns[r] = NoDns /\ wire[r] = <<>> /\ conn[r] = "none"
      /\ Domain(r) \notin BLACKLISTED_DOMAINS /\ ~is_valid_tld(Domain(r)) =>
           /\ pc[r] = "done"
           /\ stages[r] = <<"Blacklist", "TldShape">>
           /\ dns[r] = NoDns /\ wire[r] = <<>> /\ conn[r] = "none"
      /\ Resolved(r) /\ Resolution(r) \in {"Absent", "NoRoute"} =>
           /\ pc[r] = "done"
           /\ stages[r] = <<"Blacklist", "TldShape", "MxResolution">>
           /\ wire[r] = <<>> /\ conn[r] = "none"

\* a blacklisted domain was submitted with probing enabled and has returned
C4_Witness ==
  \E r \in Requests :
    /\ pc[r] = "done"
    /\ Domain(r) \in BLACKLISTED_DOMAINS
    /\ smtp_check_enabled[r]
    /\ result[r].is_blacklisted

\* C5: when the TCP connection is refused or otherwise fails to establish
\* (not a timeout), check_smtp returns 'refused' with the could-not-connect
\* detail.
C5_ConnectFailureIsRefused ==
  \A r \in Requests :
    Probed(r) /\ Deciding(r).cmd = "connect"
              /\ Deciding(r).ev \in {"tcp_refused", "host_unresolved", "net_unreachable"} =>
      /\ pending[r].status = "refused"
      /\ pending[r].detail.text = "Could not connect to the mail server on port 25."
      /\ result[r].smtp_check_status = "refused"

\* a coroutine that is ready to run (a new task, or one whose awaited
\* executor call has finished) runs when no other occupies the event loop
Runnable(q) == pc[q] \in {"ready", "dns_ret", "connect_ret"}

\* C6: while a request waits on the network (the MX query or any step of the
\* SMTP dialogue), every other request that is ready to run can run: the
\* waiting request does not occupy the event loop.
WaitingOnNetwork(r) ==
  pc[r] \in {"dns_wait", "connect_wait", "helo_blk", "mail_blk", "rcpt_blk", "quit_blk"}

C6_NetworkOffEventLoop ==
  \A r \in Requests : \A q \in Requests \ {r} :
    WaitingOnNetwork(r) /\ Runnable(q) => loop = 0

\* the host names of the records in ascending preference, equal preferences
\* in the resolver's order
ByPreference(rrset) ==
  LET n == Len(rrset)
      p == CHOOSE p \in [1..n -> 1..n] :
             /\ \A i, j \in 1..n : i # j => p[i] # p[j]
             /\ \A i, j \in 1..n : i < j =>
                  \/ rrset[p[i]].preference < rrset[p[j]].preference
                  \/ /\ rrset[p[i]].preference = rrset[p[j]].preference
                     /\ p[i] < p[j]
  IN  [i \in 1..n |-> exchange_str(rrset[p[i]])]

\* C7: for every answer of one or more MX records, the list get_mx_records
\* returns is the host names in ascending preference of their records, equal
\* preferences in the resolver's order, also when a host name occurs in
\* several records.
C7_SortedByPreference ==
  call.done /\ call.arg.kind = "Answer" =>
    /\ call.ret.exc = ""
    /\ call.ret.val = List(ByPreference(call.arg.rrset))

\* C8: the reply code to RCPT TO decides the status: a success-class (2xx)
\* code gives 'success', 550 or 553 'refused' with the mailbox detail, any
\* other code 'refused' with a detail naming the code.
C8_RcptCodeDecides ==
  \A r \in Requests :
    Probed(r) /\ Deciding(r).cmd = "rcpt" /\ Deciding(r).ev = "reply" =>
      LET code == Deciding(r).code
      IN  IF code \in 200..299
            THEN result[r].smtp_check_status = "success"
          ELSE IF code \in {550, 553}
            THEN /\ result[r].smtp_check_status = "refused"
                 /\ pending[r].detail.text = "Mailbox does not exist (550/553) or server explicitly rejected the address."
          ELSE /\ result[r].smtp_check_status = "refused"
               /\ pending[r].detail.code = code

\* C9: a timeout or a disconnect (end of file, peer reset) at connect, HELO,
\* MAIL FROM or RCPT TO gives 'timeout', never 'refused'; a step decided by a
\* reply code never gives 'timeout', and 'timeout' comes from a transport
\* fault only.
C9_TransportFaultIsTimeout ==
  \A r \in Requests :
    Probed(r) =>
      /\ Deciding(r).ev \in {"tcp_timeout", "io_timeout", "peer_reset", "eof"} =>
           /\ result[r].smtp_check_status = "timeout"
           /\ pending[r].status = "timeout"
      /\ Deciding(r).ev = "reply" => result[r].smtp_check_status # "timeout"
      /\ result[r].smtp_check_status = "timeout" =>
           Deciding(r).ev \in TcpFaults \cup IoFaults

\* the peer reset the connection while RCPT TO was outstanding
C9_Witness ==
  \E r \in Requests :
    /\ Probed(r)
    /\ Deciding(r).cmd = "rcpt"
    /\ Deciding(r).ev = "peer_reset"
    /\ result[r].smtp_check_status = "timeout"

\* C10: NXDOMAIN gives None (Absent), no MX records gives [] (NoRoute), one
\* or more records give a non-empty list (Routed), any other resolver error
\* gives None; and for Absent validate_email returns at once with
\* domain_exists false.
C10_ResolutionClasses ==
  \A r \in Requests :
    /\ pc[r] = "dns_ret" => future[r].exc = ""
    /\ Resolved(r) =>
         /\ dns[r].kind = "NXDOMAIN" => mx_records[r] = None
         /\ dns[r].kind = "NoAnswer" => mx_records[r] = List(<<>>)
         /\ dns[r].kind = "Answer" =>
              /\ ~mx_records[r].isNone
              /\ Len(mx_records[r].items) = Len(dns[r].rrset)
              /\ Len(mx_records[r].items) >= 1
         /\ dns[r].kind \notin {"NXDOMAIN", "NoAnswer", "Answer"} => mx_records[r] = None
         /\ Resolution(r) = "Absent" =>
              /\ pc[r] = "done"
              /\ ~result[r].domain_exists
              /\ wire[r] = <<>>

\* the resolver timed out and the request returned domain_exists false
C10_Witness ==
  \E r \in Requests :
    /\ pc[r] = "done"
    /\ dns[r].kind = "LifetimeTimeout"
    /\ Resolution(r) = "Absent"
    /\ ~result[r].domain_exists

\* C11: in every result validate_email returns, on every path, the message
\* is a non-empty string.
C11_MessageNeverEmpty ==
  \A r \in Requests :
    pc[r] = "done" => result[r].message.text # ""

\* a Routed domain was returned with probing disabled: no stage wrote a
\* message before the default one
C11_Witness ==
  \E r \in Requests :
    /\ pc[r] = "done"
    /\ Resolved(r) /\ Resolution(r) = "Routed"
    /\ ~smtp_check_enabled[r]
    /\ result[r].message.text # ""

\* C12: when MX resolution is Routed and probing is disabled, validate_email
\* opens no SMTP connection and returns at once with status 'skipped',
\* domain_exists true, the MX list attached and the not-verified message; the
\* probe runs only when resolution is Routed and probing is enabled.
C12_SkippedWhenDisabled ==
  \A r \in Requests :
    /\ Resolved(r) /\ Resolution(r) = "Routed" /\ ~smtp_check_enabled[r] =>
         /\ pc[r] = "done"
         /\ wire[r] = <<>> /\ conn[r] = "none"
         /\ stages[r] = <<"Blacklist", "TldShape", "MxResolution">>
         /\ result[r].smtp_check_status = "skipped"
         /\ result[r].domain_exists
         /\ result[r].mx_records = mx_records[r]
         /\ result[r].message.text = "Basic validation successful. Domain is valid, but mailbox existence was not verified (SMTP check skipped)."
    /\ (wire[r] # <<>> \/ conn[r] # "none" \/ Len(stages[r]) = 4) =>
         /\ Resolved(r) /\ Resolution(r) = "Routed"
         /\ smtp_check_enabled[r]

\* a Routed domain with two MX hosts was returned with probing disabled
C12_Witness ==
  \E r \in Requests :
    /\ pc[r] = "done"
    /\ Resolved(r) /\ Resolution(r) = "Routed"
    /\ ~smtp_check_enabled[r]
    /\ Len(result[r].mx_records.items) = 2
    /\ result[r].smtp_check_status = "skipped"

\* C13: in every returned result mx_records is present exactly when MX
\* resolution was Routed, and is then the list get_mx_records returned,
\* unchanged; it is None for blacklisted, invalid-TLD, Absent and NoRoute
\* results.
C13_MxRecordsIffRouted ==
  \A r \in Requests :
    pc[r] = "done" =>
      /\ ~result[r].mx_records.isNone <=> (Resolved(r) /\ Resolution(r) = "Routed")
      /\ Resolved(r) /\ Resolution(r) = "Routed" =>
           /\ result[r].mx_records = mx_records[r]
           /\ Len(result[r].mx_records.items) = Len(dns[r].rrset)
           /\ \A i \in 1..Len(dns[r].rrset) :
                \E j \in 1..Len(dns[r].rrset) :
                  exchange_str(dns[r].rrset[j]) = result[r].mx_records.items[i]
      /\ ~(Resolved(r) /\ Resolution(r) = "Routed") => result[r].mx_records = None

\* a probed request returned its two MX hosts, most preferred first
C13_Witness ==
  \E r \in Requests :
    /\ Probed(r)
    /\ Resolution(r) = "Routed"
    /\ result[r].mx_records = List(<<rstrip_dot(mx1), rstrip_dot(mx2)>>)

\* what the network gave a request: the resolver's outcome and the event of
\* each step of the SMTP dialogue
Responses(r) ==
  <<dns[r], [i \in 1..Len(wire[r]) |-> <<wire[r][i].ev, wire[r][i].code>>]>>

\* C14: two calls of validate_email with the same email, the same
\* smtp_check_enabled and the same DNS and SMTP responses return identical
\* results, whether the second starts after the first has returned or while
\* it runs.
C14_SameInputsSameResult ==
  \A r, q \in Requests :
    /\ pc[r] = "done" /\ pc[q] = "done"
    /\ email[r] = email[q]
    /\ smtp_check_enabled[r] = smtp_check_enabled[q]
    /\ Responses(r) = Responses(q)
    => result[r] = result[q]

\* two calls for the same address have both been probed, with the same
\* responses, the second one refused at RCPT TO
C14_Witness ==
  \E r, q \in Requests :
    /\ r # q
    /\ Probed(r) /\ Probed(q)
    /\ email[r] = email[q]
    /\ Responses(r) = Responses(q)
    /\ Deciding(r).cmd = "rcpt" /\ Deciding(r).code = 550
    /\ result[r] = result[q]

\* check_smtp run on its own against the replies w of the mail host: the
\* (status, detail) pair it returns
check_smtp_alone(e, host, w) ==
  IF smtplib_connect(w[1]) # ""
    THEN check_smtp_except(smtplib_connect(w[1]), host)
  ELSE IF smtplib_command(w[2]) # ""
    THEN check_smtp_except(smtplib_command(w[2]), host)
  ELSE IF smtplib_command(w[3]) # ""
    THEN check_smtp_except(smtplib_command(w[3]), host)
  ELSE IF mail_from_check(w[3].code) # NoPending
    THEN mail_from_check(w[3].code)
  ELSE IF ~is_ascii(e)
    THEN check_smtp_except("UnicodeEncodeError", host)
  ELSE IF smtplib_command(w[4]) # ""
    THEN check_smtp_except(smtplib_command(w[4]), host)
  ELSE rcpt_to_check(w[4].code)

\* validate_email run on its own, with no other invocation in the process,
\* against the resolver outcome and the replies w: the result it returns
validate_email_alone(e, enabled, outcome, w) ==
  LET domain == domain_of(e)
      res == initial_result(e, enabled)
      mx == sync_mx_lookup(outcome).val
  IN  IF policy_check(domain) = "blacklisted"
        THEN [res EXCEPT !.is_blacklisted = TRUE,
                         !.message = Message("The domain is blacklisted and should not be used.", domain, Empty)]
      ELSE IF policy_check(domain) = "invalid_tld"
        THEN [res EXCEPT !.message = Message("The domain does not appear to have a valid Top-Level Domain.", domain, Empty)]
      ELSE IF mx.isNone
        THEN [res EXCEPT !.message = Message("The domain does not exist (NXDOMAIN).", domain, Empty)]
      ELSE IF mx.items = <<>>
        THEN [res EXCEPT !.message = Message("The domain exists, but no Mail Exchange (MX) records were found.", domain, Empty)]
      ELSE IF ~enabled
        THEN default_message(routed_result(res, mx))
      ELSE LET ret == check_smtp_alone(e, mx.items[1], w)
           IN  smtp_result(routed_result(res, mx), e, ret.status, ret.detail)

\* the variables of one invocation
Locals(r) ==
  <<pc[r], email[r], smtp_check_enabled[r], result[r], mx_records[r], conn[r],
    pending[r], stages[r], future[r], dns[r], wire[r]>>

\* C15: under every interleaving of two invocations, each one returns the
\* result it returns when run alone against the same resolver outcome and
\* mail host replies, and a step of one invocation leaves every variable of
\* the other as it was. The policy sets are definitions: no step writes them.
C15_NoInterference ==
  /\ [](\A r \in Requests :
          pc[r] = "done" =>
            result[r] = validate_email_alone(email[r], smtp_check_enabled[r],
                                             dns[r], wire[r]))
  /\ [][\A r, q \in Requests :
          r # q /\ Locals(r)' # Locals(r) => Locals(q)' = Locals(q)]_vars

\* an invocation for x.co has returned 'success' while one for y.io is in
\* flight, its connect having come back
C15_Witness ==
  \E r, q \in Requests :
    /\ Probed(r) /\ result[r].smtp_check_status = "success"
    /\ pc[q] = "connect_ret"
    /\ Domain(r) # Domain(q)
    /\ ~result[q].mx_records.isNone
    /\ result[r] = validate_email_alone(email[r], smtp_check_enabled[r],
                                        dns[r], wire[r])

\* the domain is a recognised suffix with at least one character before it
HasNamedSuffix(domain) ==
  \E tld \in VALID_TLDS : endswith(domain, tld) /\ Len(domain) > Len(tld)

LongestFirst(tlds) ==
  /\ {tlds[i] : i \in 1..Len(tlds)} = VALID_TLDS
  /\ Len(tlds) = Cardinality(VALID_TLDS)
  /\ \A i, j \in 1..Len(tlds) : i < j => Len(tlds[i]) >= Len(tlds[j])

DialogueOrder == <<"connect", "helo", "mail", "rcpt">>

\* the entries of wire[r] before the closing QUIT
Dialogue(r) ==
  IF wire[r] # <<>> /\ wire[r][Len(wire[r])].cmd = "quit"
    THEN SubSeq(wire[r], 1, Len(wire[r]) - 1)
    ELSE wire[r]

Accepted(entry) == entry.ev = "reply" /\ entry.code = 250
Is2xx(entry) == entry.ev = "reply" /\ entry.code \in 200..299

\* C17: the dialogue is connect, HELO, MAIL FROM, RCPT TO in that order,
\* then the close; RCPT TO comes only after MAIL FROM was accepted; a reply
\* to MAIL FROM that is not 2xx gives 'refused' with no RCPT TO; and no other
\* command, DATA included, is ever sent.
C17_DialogueOrder ==
  \A r \in Requests :
    LET d == Dialogue(r)
    IN  /\ Len(d) <= Len(DialogueOrder)
        /\ \A i \in 1..Len(d) : d[i].cmd = DialogueOrder[i]
        /\ \A i \in 1..Len(wire[r]) :
             wire[r][i].cmd \in {"connect", "helo", "mail", "rcpt", "quit"}
        /\ Probed(r) => wire[r][Len(wire[r])].cmd = "quit"
        /\ Len(d) >= 4 => Accepted(d[3])
        /\ Len(d) >= 3 /\ d[3].ev = "reply" /\ ~Is2xx(d[3]) =>
             /\ Len(d) = 3
             /\ pc[r] \in {"quit_blk", "done"}
             /\ pending[r].status = "refused"
             /\ pc[r] = "done" => result[r].smtp_check_status = "refused"

\* MAIL FROM was answered 550: the result is 'refused' and the dialogue was
\* connect, HELO, MAIL FROM, QUIT
C17_Witness ==
  \E r \in Requests :
    /\ Probed(r)
    /\ Len(wire[r]) = 4
    /\ wire[r][3].cmd = "mail" /\ wire[r][3].ev = "reply" /\ wire[r][3].code = 550
    /\ wire[r][4].cmd = "quit"
    /\ result[r].smtp_check_status = "refused"

QuitAttempts(r) == Cardinality({i \in 1..Len(wire[r]) : wire[r][i].cmd = "quit"})

\* C18: once the connection object exists, check_smtp attempts QUIT exactly
\* once before it returns, whatever it returns; what it returns is what the
\* dialogue before the QUIT decided, and a failing QUIT neither changes that
\* pair nor raises.
C18_QuitOnceAndSilent ==
  /\ [](\A r \in Requests :
          /\ pc[r] \notin {"done", "raised"} => QuitAttempts(r) = 0
          /\ conn[r] # "none" /\ pc[r] \in {"done", "raised"} =>
               /\ pc[r] = "done"
               /\ QuitAttempts(r) = 1
               /\ wire[r][Len(wire[r])].cmd = "quit"
               /\ pending[r] = check_smtp_alone(email[r], mx_server(r), wire[r])
               /\ result[r].smtp_check_status = pending[r].status)
  /\ [][\A r \in Requests :
          pc[r] = "quit_blk" /\ pc'[r] # pc[r] =>
            pc'[r] = "done" /\ pending'[r] = pending[r]]_vars

\* RCPT TO was answered 250, the QUIT failed on the transport, and the result
\* is still 'success'
C18_Witness ==
  \E r \in Requests :
    /\ Probed(r)
    /\ Len(wire[r]) = 5
    /\ Accepted(wire[r][4])
    /\ wire[r][5].cmd = "quit" /\ wire[r][5].ev \in IoFaults
    /\ result[r].smtp_check_status = "success"

\* C19: one call makes at most one connection attempt, to the first host of
\* the ordered MX list, and contacts no other host whatever the outcome.
C19_OnlyFirstHostOnce ==
  \A r \in Requests :
    /\ Cardinality({i \in 1..Len(wire[r]) : wire[r][i].cmd = "connect"}) <= 1
    /\ \A i \in 1..Len(wire[r]) :
         /\ wire[r][i].cmd = "connect" <=> i = 1
         /\ wire[r][i].cmd = "connect" =>
              /\ ~mx_records[r].isNone
              /\ wire[r][i].host = mx_records[r].items[1]
         /\ wire[r][i].cmd # "connect" => wire[r][i].host = <<>>

\* the connection to the first of two hosts was refused and the call has
\* returned
C19_Witness ==
  \E r \in Requests :
    /\ Probed(r)
    /\ Len(mx_records[r].items) = 2
    /\ mx_records[r].items[1] # mx_records[r].items[2]
    /\ wire[r][1].cmd = "connect" /\ wire[r][1].ev = "tcp_refused"
    /\ wire[r][1].host = mx_records[r].items[1]
    /\ Len(wire[r]) = 2

\* C20: a result says 'success' only if probing was enabled, the domain is
\* not blacklisted, its TLD passed, resolution was Routed (domain_exists
\* true, mx_records non-empty) and the host answered 250 to RCPT TO after
\* accepting MAIL FROM; 'success', 'refused' and 'timeout' appear only in
\* results with domain_exists true.
C20_SuccessIsSound ==
  \A r \in Requests :
    pc[r] = "done" =>
      /\ result[r].smtp_check_status = "success" =>
           /\ smtp_check_enabled[r]
           /\ ~result[r].is_blacklisted
           /\ Domain(r) \notin BLACKLISTED_DOMAINS
           /\ is_valid_tld(Domain(r))
           /\ Resolved(r) /\ Resolution(r) = "Routed"
           /\ result[r].domain_exists
           /\ ~result[r].mx_records.isNone /\ result[r].mx_records.items # <<>>
           /\ Len(Dialogue(r)) = 4
           /\ Dialogue(r)[3].cmd = "mail" /\ Accepted(Dialogue(r)[3])
           /\ Dialogue(r)[4].cmd = "rcpt" /\ Accepted(Dialogue(r)[4])
      /\ result[r].smtp_check_status \in {"success", "refused", "timeout"} =>
           result[r].domain_exists

\* a result says 'success'
C20_Witness ==
  \E r \in Requests :
    /\ pc[r] = "done"
    /\ result[r].smtp_check_status = "success"
    /\ result[r].domain_exists
    /\ Accepted(Deciding(r))

====
